---- MODULE Spec2Model ----
(***************************************************************************)
(* Model of the CodeView component (src/codeview.jsx): the file set, the   *)
(* repository metadata {repoName, repoUrl, repoBranch}, the loading flag,  *)
(* and the handlers that load, publish and persist that metadata.          *)
(*                                                                         *)
(* Strings are TLA+ strings; the empty string "" stands for every falsy    *)
(* string value of the source (undefined, null, "").  A URL string is a    *)
(* sequence of tokens: an optional leading scheme/host token followed by   *)
(* "/" separators and path-segment tokens; <<>> is the absent url.         *)
(***************************************************************************)
EXTENDS Integers, Sequences, FiniteSets, Bags, TLC

VARIABLES id, files, loading, repoName, repoUrl, repoBranch,
          inflight, loads, patches, clips, last

vars == <<id, files, loading, repoName, repoUrl, repoBranch,
          inflight, loads, patches, clips, last>>

-----------------------------------------------------------------------------
(* Bounds of the model                                                     *)

\* Requests awaiting their response at any one time (POST, GET, PATCH and
\* clipboard writes together).
MaxOutstanding == 2

-----------------------------------------------------------------------------
(* Input universes                                                         *)

NoId == ""
Ids == {NoId, "p1"}

NoUrl == <<>>
Origin == "https://github.com"
EmptyHost == "https://"
AppUrl == <<Origin, "/", "acme", "/", "app">>
HostUrl == <<Origin, "/">>
BrokenUrl == <<EmptyHost>>
Urls == {NoUrl, AppUrl, HostUrl, BrokenUrl}

ServerNames == {"", "other"}
ServerErrors == {"", "quota exceeded"}
Branches == {"main", "dev"}
PromptInputs == {""} \cup Branches

\* Values of Date.now().
Clock == {1, 2}

NoFiles == {}
Snapshots == {NoFiles, {"App.js"}, {"index.js"}}
Incoming == [defined : BOOLEAN, files : Snapshots]

-----------------------------------------------------------------------------
(* Pure helpers                                                            *)

\* new URL(s) without a base: succeeds only for an absolute url with a host.
URLParses(u) == u # NoUrl /\ Head(u) = Origin

\* window.open(s) resolves s against the document: fails (SyntaxError) only
\* when s cannot be parsed even as a relative reference.
OpenThrows(u) == u # NoUrl /\ Head(u) = EmptyHost

\* u.pathname.split("/").filter(Boolean): the non-empty path segments.
RECURSIVE PathSegments(_)
PathSegments(p) ==
    IF p = <<>> THEN <<>>
    ELSE IF Head(p) = "/" THEN PathSegments(Tail(p))
    ELSE <<Head(p)>> \o PathSegments(Tail(p))

\* ....pop(): the last element, undefined ("") for an empty array.
Pop(s) == IF s = <<>> THEN "" ELSE s[Len(s)]

LastSegment(u) == Pop(PathSegments(Tail(u)))

\* The stored name is ignored.
RepoNameToUseFresh(name, pid, t) ==
    "ai-workspace-" \o (IF pid # NoId THEN pid ELSE ToString(t))

\* Line 89: repoName || `ai-workspace-${id || Date.now()}`
RepoNameToUse(name, pid, t) ==
    IF name # "" THEN name
    ELSE "ai-workspace-" \o (IF pid # NoId THEN pid ELSE ToString(t))

-----------------------------------------------------------------------------
(* Response bodies of POST /api/github-publish and JSON.parse              *)

NoObj == [success |-> FALSE, repoUrl |-> NoUrl, repoName |-> "", error |-> ""]

SuccessObjs ==
    {[success |-> TRUE, repoUrl |-> u, repoName |-> n, error |-> ""] :
        u \in Urls, n \in ServerNames}

FailureObjs ==
    {[success |-> FALSE, repoUrl |-> NoUrl, repoName |-> "", error |-> e] :
        e \in ServerErrors}

\* kind "garbage": not JSON; "null": the JSON text null; "scalar": a JSON
\* number, string or boolean; "object": a JSON object.
Bodies ==
    {[kind |-> k, obj |-> NoObj] : k \in {"garbage", "null", "scalar"}}
    \cup {[kind |-> "object", obj |-> o] : o \in SuccessObjs \cup FailureObjs}

NoBody == [kind |-> "none", obj |-> NoObj]

\* JSON.parse(raw): throws on non-JSON text; the value null has no
\* properties (reading one throws), a scalar has every property undefined.
JSONParse(raw) ==
    [threw |-> raw.kind = "garbage",
     isNull |-> raw.kind = "null",
     data |-> IF raw.kind = "object" THEN raw.obj ELSE NoObj]

-----------------------------------------------------------------------------
(* Responses of GET /api/projects/<id>                                     *)

NoData == [githubRepoUrl |-> NoUrl, githubRepoName |-> "", githubBranch |-> ""]

LoadData ==
    [githubRepoUrl : Urls, githubRepoName : ServerNames,
     githubBranch : {"", "dev"}]

\* "reject": fetch throws; "notok": !res.ok; "badjson": res.json() throws;
\* "null": the body is the JSON value null; "data": a JSON object.
LoadResponses ==
    {[kind |-> k, data |-> NoData] : k \in {"reject", "notok", "badjson", "null"}}
    \cup {[kind |-> "data", data |-> d] : d \in LoadData}

NoResponse == [kind |-> "none", data |-> NoData]

\* The supplied name is preferred to the one in the url.
LoadedNamePreferGiven(name, data) ==
    IF data.githubRepoName # "" THEN data.githubRepoName
    ELSE IF data.githubRepoUrl # NoUrl /\ URLParses(data.githubRepoUrl)
            /\ LastSegment(data.githubRepoUrl) # ""
    THEN LastSegment(data.githubRepoUrl)
    ELSE name

\* Lines 43-56: the name after a load response is applied.
LoadedName(name, data) ==
    IF data.githubRepoUrl # NoUrl
    THEN IF URLParses(data.githubRepoUrl)
         THEN IF LastSegment(data.githubRepoUrl) # ""
              THEN LastSegment(data.githubRepoUrl) ELSE name
         ELSE IF data.githubRepoName # "" THEN data.githubRepoName ELSE name
    ELSE IF data.githubRepoName # "" THEN data.githubRepoName ELSE name

LoadedUrl(url, data) ==
    IF data.githubRepoUrl # NoUrl THEN data.githubRepoUrl ELSE url

\* A variant that falls back to the default branch.
LoadedBranchDefaulting(branch, data) ==
    IF data.githubBranch # "" THEN data.githubBranch ELSE "main"

\* Line 58.
LoadedBranch(branch, data) ==
    IF data.githubBranch # "" THEN data.githubBranch ELSE branch

-----------------------------------------------------------------------------
(* The success branch of publishToGitHub                                   *)

\* The returned name is preferred to the one in the url.
PublishedNamePreferGiven(name, data, repoNameToUse) ==
    IF data.repoName # "" THEN data.repoName
    ELSE IF data.repoUrl = NoUrl THEN repoNameToUse
    ELSE IF URLParses(data.repoUrl) /\ LastSegment(data.repoUrl) # ""
    THEN LastSegment(data.repoUrl)
    ELSE name

\* Lines 113-128: the name after a successful publish result is applied.
PublishedName(name, data, repoNameToUse) ==
    IF data.repoUrl # NoUrl
    THEN IF URLParses(data.repoUrl)
         THEN IF LastSegment(data.repoUrl) # ""
              THEN LastSegment(data.repoUrl) ELSE name
         ELSE IF data.repoName # "" THEN data.repoName ELSE name
    ELSE IF data.repoName # "" THEN data.repoName ELSE repoNameToUse

PublishedUrl(url, data) ==
    IF data.repoUrl # NoUrl THEN data.repoUrl ELSE url

\* Lines 131-135: the object handed to saveRepoMetadata, as JSON.stringify
\* sends it (a key whose value is undefined is dropped).
PublishPatchBody(repoNameToUse, data, branch) ==
    IF data.repoUrl # NoUrl
    THEN [githubRepoName |-> repoNameToUse, githubRepoUrl |-> data.repoUrl,
          githubBranch |-> branch]
    ELSE [githubRepoName |-> repoNameToUse, githubBranch |-> branch]

\* A variant that issues the PATCH whether or not id is set.
SaveRepoMetadataAlways(pid, body) == <<[pid |-> pid, body |-> body]>>

\* Lines 68-80: saveRepoMetadata issues a PATCH only when id is set.
SaveRepoMetadata(pid, body) ==
    IF pid = NoId THEN <<>> ELSE <<[pid |-> pid, body |-> body]>>

\* Lines 71-75: a sequence of PATCH requests as they travel: the project of
\* the request URL (/api/projects/<pid>) and the githubBranch of the body,
\* which every PATCH of the component carries.
RECURSIVE Targets(_)
Targets(reqs) ==
    IF reqs = <<>> THEN <<>>
    ELSE <<[pid |-> Head(reqs).pid,
            githubBranch |-> Head(reqs).body.githubBranch]>>
         \o Targets(Tail(reqs))

\* Line 108: data?.error || "GitHub publish failed"
FailureNotice(data) ==
    IF data.error # "" THEN data.error ELSE "GitHub publish failed"

\* The entry guard is missing.
NothingToPublishNever(f) == FALSE

\* Line 84: !Object.keys(files).length
NothingToPublish(f) == f = NoFiles

\* The success flag is not looked at.
SucceededAlways(data) == TRUE

\* Line 107: data.success
Succeeded(data) == data.success

\* Line 141: the notice of the catch block.
CatchNotice == "Unexpected error"

\* The flag is not cleared.
FinallyLoadingStuck == TRUE

\* Line 143: the value the finally block gives the loading flag.
FinallyLoading == FALSE

-----------------------------------------------------------------------------
(* State                                                                   *)

\* One publishToGitHub invocation suspended at its awaits (lines 92, 98),
\* as the values its closure captured at the click: repoNameToUse,
\* repoBranch and id.
Attempt(n, b, p) == [name |-> n, branch |-> b, pid |-> p]

NoAttempt == Attempt("", "", NoId)

Outstanding == BagCardinality(inflight) + Len(loads) + Len(patches) + clips

\* What the most recent handler step did: its notices (toast calls), the
\* PATCH and POST requests it issued, its window.open and clipboard calls,
\* whether an exception left the handler, the response it consumed, the
\* invocation it belongs to and the PATCH the backend applied.
Step(op) ==
    [op |-> op, outcome |-> "", notices |-> <<>>, patches |-> <<>>,
     posts |-> <<>>, opens |-> <<>>, clips |-> <<>>, escaped |-> FALSE,
     body |-> NoBody, resp |-> NoResponse, attempt |-> NoAttempt,
     applied |-> <<>>]

\* Lines 16-24 and 34-66: the state after the first render and its effects;
\* the load of line 65 has been started when id is set.
Init ==
    /\ id \in Ids
    /\ files \in Snapshots
    /\ loading = FALSE
    /\ repoName = ""
    /\ repoUrl = NoUrl
    /\ repoBranch = "main"
    /\ inflight = EmptyBag
    /\ loads = IF id = NoId THEN <<>> ELSE <<id>>
    /\ patches = <<>>
    /\ clips = 0
    /\ last = Step("init")

-----------------------------------------------------------------------------
(* Environment                                                             *)

\* Line 28: the prop is set and has at least one key.
Replaces(incoming) == incoming.defined /\ incoming.files # NoFiles

\* A variant that adds the incoming files to the current ones.
SetFilesMerging(cur, incoming) ==
    IF Replaces(incoming) THEN cur \cup incoming.files ELSE cur

\* Lines 28-30: the file set after the effect has run.
SetFiles(cur, incoming) ==
    IF Replaces(incoming) THEN incoming.files ELSE cur

\* Lines 27-31: the projectFiles prop changes.
ReplaceFiles(incoming) ==
    /\ files' = SetFiles(files, incoming)
    /\ last' = [Step("replaceFiles") EXCEPT
                   !.outcome = IF Replaces(incoming) THEN "replaced"
                               ELSE "ignored"]
    /\ UNCHANGED <<id, loading, repoName, repoUrl, repoBranch,
                   inflight, loads, patches, clips>>

\* Lines 16 and 34-66: the route parameter changes; the effect re-runs and
\* starts a load when the new id is set.  Route changes are modelled while
\* no request is outstanding.
Navigate(newId) ==
    /\ newId # id
    /\ Outstanding = 0
    /\ id' = newId
    /\ loads' = IF newId = NoId THEN loads ELSE Append(loads, newId)
    /\ last' = Step("navigate")
    /\ UNCHANGED <<files, loading, repoName, repoUrl, repoBranch,
                   inflight, patches, clips>>

\* Lines 37-63: a pending GET settles and loadRepoInfo runs to its end.
LoadSettle(resp) ==
    /\ loads # <<>>
    /\ loads' = Tail(loads)
    /\ IF resp.kind = "data"
       THEN /\ repoUrl' = LoadedUrl(repoUrl, resp.data)
            /\ repoName' = LoadedName(repoName, resp.data)
            /\ repoBranch' = LoadedBranch(repoBranch, resp.data)
       ELSE UNCHANGED <<repoName, repoUrl, repoBranch>>
    /\ last' = [Step("load") EXCEPT !.resp = resp]
    /\ UNCHANGED <<id, files, loading, inflight, patches, clips>>

\* Lines 70-79: the oldest pending PATCH completes, applied by the backend,
\* or fails; either way nothing happens in the component.
PatchSettle(ok) ==
    /\ patches # <<>>
    /\ patches' = Tail(patches)
    /\ last' = [Step("patchSettle") EXCEPT
                   !.outcome = IF ok THEN "ok" ELSE "failed",
                   !.applied = IF ok THEN <<Head(patches)>> ELSE <<>>]
    /\ UNCHANGED <<id, files, loading, repoName, repoUrl, repoBranch,
                   inflight, loads, clips>>

-----------------------------------------------------------------------------
(* publishToGitHub, lines 82-145                                           *)

\* A variant that always asks for the default branch.
PublishRequestDefaultBranch(name, f, branch) ==
    [repoName |-> name, files |-> f, branch |-> "main"]

\* Line 95: the body of the POST to /api/github-publish.
PublishRequest(name, f, branch) ==
    [repoName |-> name, files |-> f, branch |-> branch]

\* A variant in which a click while loading is set does nothing.
PublishTriggerExclusive(t) ==
    IF NothingToPublish(files)
    THEN /\ loading' = FinallyLoading
         /\ last' = [Step("publishEnd") EXCEPT
                        !.outcome = "empty",
                        !.notices = <<"No files to publish to GitHub">>]
         /\ UNCHANGED <<id, files, repoName, repoUrl, repoBranch,
                        inflight, loads, patches, clips>>
    ELSE /\ ~loading
         /\ Outstanding < MaxOutstanding
         /\ LET a == Attempt(RepoNameToUse(repoName, id, t), repoBranch, id)
            IN /\ inflight' = inflight (+) SetToBag({a})
               /\ last' = [Step("publishStart") EXCEPT
                              !.attempt = a,
                              !.posts = <<PublishRequest(a.name, files,
                                                         a.branch)>>]
         /\ loading' = TRUE
         /\ UNCHANGED <<id, files, repoName, repoUrl, repoBranch,
                        loads, patches, clips>>

\* Lines 83-96: the click up to the first await.  With no files the whole
\* handler (notice, return, finally) runs in this step.  t is Date.now().
PublishTrigger(t) ==
    IF NothingToPublish(files)
    THEN /\ loading' = FinallyLoading
         /\ last' = [Step("publishEnd") EXCEPT
                        !.outcome = "empty",
                        !.notices = <<"No files to publish to GitHub">>]
         /\ UNCHANGED <<id, files, repoName, repoUrl, repoBranch,
                        inflight, loads, patches, clips>>
    ELSE /\ Outstanding < MaxOutstanding
         /\ LET a == Attempt(RepoNameToUse(repoName, id, t), repoBranch, id)
            IN /\ inflight' = inflight (+) SetToBag({a})
               /\ last' = [Step("publishStart") EXCEPT
                              !.attempt = a,
                              !.posts = <<PublishRequest(a.name, files,
                                                         a.branch)>>]
         /\ loading' = TRUE
         /\ UNCHANGED <<id, files, repoName, repoUrl, repoBranch,
                        loads, patches, clips>>

\* Lines 99-138: what the handler does with the body text, given the
\* values its closure holds and the name and url stored when it resumes.
PublishEffect(a, raw, name, url) ==
    LET p == JSONParse(raw)
        data == p.data
        quiet == [outcome |-> "", notices |-> <<>>, name |-> name,
                  url |-> url, patches |-> <<>>, opens |-> <<>>]
    IN IF p.threw
       THEN [quiet EXCEPT !.outcome = "malformed",
                          !.notices = <<"GitHub publish failed">>]
       ELSE IF p.isNull
       THEN [quiet EXCEPT !.outcome = "threw", !.notices = <<CatchNotice>>]
       ELSE IF ~Succeeded(data)
       THEN [quiet EXCEPT !.outcome = "failed",
                          !.notices = <<FailureNotice(data)>>]
       ELSE [outcome |-> "succeeded",
             name |-> PublishedName(name, data, a.name),
             url |-> PublishedUrl(url, data),
             patches |-> SaveRepoMetadata(a.pid,
                            PublishPatchBody(a.name, data, a.branch)),
             notices |-> IF OpenThrows(data.repoUrl)
                         THEN <<"Published successfully!", CatchNotice>>
                         ELSE <<"Published successfully!">>,
             opens |-> IF data.repoUrl # NoUrl /\ ~OpenThrows(data.repoUrl)
                       THEN <<data.repoUrl>> ELSE <<>>]

\* Lines 92-144: the POST settles and the handler runs to its end.  Between
\* its two awaits (fetch, res.text()) the handler reads and writes nothing
\* of the component, so both settle in this step; ok = FALSE is either of
\* them throwing.
PublishSettle(a, ok, raw) ==
    /\ BagIn(a, inflight)
    /\ inflight' = inflight (-) SetToBag({a})
    /\ loading' = FinallyLoading
    /\ IF ok
       THEN LET e == PublishEffect(a, raw, repoName, repoUrl)
            IN /\ repoName' = e.name
               /\ repoUrl' = e.url
               /\ patches' = patches \o Targets(e.patches)
               /\ last' = [Step("publishEnd") EXCEPT
                              !.outcome = e.outcome, !.notices = e.notices,
                              !.patches = e.patches, !.opens = e.opens,
                              !.body = raw, !.attempt = a]
       ELSE /\ last' = [Step("publishEnd") EXCEPT
                           !.outcome = "threw", !.notices = <<CatchNotice>>,
                           !.attempt = a]
            /\ UNCHANGED <<repoName, repoUrl, patches>>
    /\ UNCHANGED <<id, files, repoBranch, loads, clips>>

-----------------------------------------------------------------------------
(* Repo actions, lines 147-169; their buttons are rendered only while      *)
(* repoName is non-empty (lines 180-219)                                   *)

\* Lines 147-150.
OpenRepo ==
    /\ repoName # ""
    /\ last' = IF repoUrl = NoUrl
               THEN [Step("openRepo") EXCEPT
                        !.notices = <<"No repo URL available">>]
               ELSE IF OpenThrows(repoUrl)
               THEN [Step("openRepo") EXCEPT !.escaped = TRUE]
               ELSE [Step("openRepo") EXCEPT !.opens = <<repoUrl>>]
    /\ UNCHANGED <<id, files, loading, repoName, repoUrl, repoBranch,
                   inflight, loads, patches, clips>>

\* A variant that writes to the clipboard whether or not a url is stored.
CopyRepoUrlBlind ==
    /\ repoName # ""
    /\ Outstanding < MaxOutstanding
    /\ clips' = clips + 1
    /\ last' = [Step("copyStart") EXCEPT !.clips = <<repoUrl>>]
    /\ UNCHANGED <<id, files, loading, repoName, repoUrl, repoBranch,
                   inflight, loads, patches>>

\* Lines 152-155: the click up to the await of clipboard.writeText.
CopyRepoUrl ==
    /\ repoName # ""
    /\ IF repoUrl = NoUrl
       THEN /\ last' = [Step("copyRepoUrl") EXCEPT
                           !.notices = <<"No repo URL to copy">>]
            /\ UNCHANGED clips
       ELSE /\ Outstanding < MaxOutstanding
            /\ clips' = clips + 1
            /\ last' = [Step("copyStart") EXCEPT !.clips = <<repoUrl>>]
    /\ UNCHANGED <<id, files, loading, repoName, repoUrl, repoBranch,
                   inflight, loads, patches>>

\* Lines 155-159: the clipboard write settles.
ClipSettle(ok) ==
    /\ clips > 0
    /\ clips' = clips - 1
    /\ last' = [Step("copyRepoUrl") EXCEPT
                   !.outcome = IF ok THEN "ok" ELSE "failed",
                   !.notices = IF ok
                               THEN <<"Repository URL copied to clipboard">>
                               ELSE <<"Unable to copy URL">>]
    /\ UNCHANGED <<id, files, loading, repoName, repoUrl, repoBranch,
                   inflight, loads, patches>>

\* Lines 162-169: window.prompt returns input ("" for empty or cancelled).
ChangeBranch(input) ==
    /\ repoName # ""
    /\ IF input = ""
       THEN /\ last' = [Step("changeBranch") EXCEPT !.outcome = "cancelled"]
            /\ UNCHANGED <<repoBranch, patches>>
       ELSE LET sent == SaveRepoMetadata(id, [githubBranch |-> input])
            IN /\ sent # <<>> => Outstanding < MaxOutstanding
               /\ repoBranch' = input
               /\ patches' = patches \o Targets(sent)
               /\ last' = [Step("changeBranch") EXCEPT
                              !.outcome = "set", !.patches = sent,
                              !.notices = <<"Branch set to " \o input>>]
    /\ UNCHANGED <<id, files, loading, repoName, repoUrl,
                   inflight, loads, clips>>

-----------------------------------------------------------------------------

Next ==
    \/ \E incoming \in Incoming : ReplaceFiles(incoming)
    \/ \E newId \in Ids : Navigate(newId)
    \/ \E resp \in LoadResponses : LoadSettle(resp)
    \/ \E ok \in BOOLEAN : PatchSettle(ok)
    \/ \E t \in Clock : PublishTrigger(t)
    \/ \E a \in BagToSet(inflight) : PublishSettle(a, FALSE, NoBody)
    \/ \E a \in BagToSet(inflight), raw \in Bodies : PublishSettle(a, TRUE, raw)
    \/ OpenRepo
    \/ CopyRepoUrl
    \/ \E ok \in BOOLEAN : ClipSettle(ok)
    \/ \E input \in PromptInputs : ChangeBranch(input)

Spec == Init /\ [][Next]_vars

-----------------------------------------------------------------------------
(* Fairness: every outstanding POST eventually completes or fails (the     *)
(* browser settles every fetch); nothing else is assumed to happen.        *)

GeneratedNames == {RepoNameToUse("", p, t) : p \in Ids, t \in Clock}

StoredNames ==
    ({LastSegment(u) : u \in Urls \ {NoUrl}} \cup ServerNames
        \cup GeneratedNames) \ {""}

Attempts == {Attempt(n, b, p) : n \in StoredNames, b \in Branches, p \in Ids}

Settles(a) ==
    \/ PublishSettle(a, FALSE, NoBody)
    \/ \E raw \in Bodies : PublishSettle(a, TRUE, raw)

\* The publish flow and the requests it shares the network with.
NextPublish ==
    \/ \E incoming \in Incoming : ReplaceFiles(incoming)
    \/ \E resp \in LoadResponses : LoadSettle(resp)
    \/ \E ok \in BOOLEAN : PatchSettle(ok)
    \/ \E t \in Clock : PublishTrigger(t)
    \/ \E a \in BagToSet(inflight) : PublishSettle(a, FALSE, NoBody)
    \/ \E a \in BagToSet(inflight), raw \in Bodies : PublishSettle(a, TRUE, raw)

FairSpec == Init /\ [][NextPublish]_vars /\ \A a \in Attempts : WF_vars(Settles(a))

TypeOK ==
    /\ id \in Ids
    /\ files \in Snapshots
    /\ loading \in BOOLEAN
    /\ repoName \in StoredNames \cup {""}
    /\ repoUrl \in Urls
    /\ repoBranch \in Branches
    /\ BagToSet(inflight) \subseteq Attempts
    /\ Outstanding <= MaxOutstanding

-----------------------------------------------------------------------------
(* C1 *)

\* C1: every publish attempt that has set busy = true (it is in flight)
\* eventually ends, and when it ends the busy flag is false, whichever way
\* its network call settles.
C1_BusyEventuallyCleared ==
    /\ [][(last'.op = "publishEnd" /\ BagIn(last'.attempt, inflight)) =>
             /\ loading' = FALSE
             /\ inflight' = inflight (-) SetToBag({last'.attempt})]_vars
    /\ loading ~> (last.op = "publishEnd" /\ loading = FALSE)

\* An attempt whose network call threw has ended with the flag cleared.
C1_Witness ==
    /\ last.op = "publishEnd"
    /\ last.outcome = "threw"
    /\ last.body = NoBody
    /\ last.attempt.name # ""
    /\ loading = FALSE

-----------------------------------------------------------------------------
(* C2 *)

\* C2: a publish triggered while the file set is empty issues no request
\* (no POST, no PATCH, no GET), emits exactly the one notice "No files to
\* publish to GitHub", starts no attempt and leaves the metadata unchanged.
C2_EmptyPublishIsLocal ==
    [][(files = NoFiles /\ \E t \in Clock : PublishTrigger(t)) =>
          /\ last'.notices = <<"No files to publish to GitHub">>
          /\ last'.posts = <<>>
          /\ last'.patches = <<>>
          /\ UNCHANGED <<inflight, loads, patches, clips>>
          /\ UNCHANGED <<repoName, repoUrl, repoBranch>>]_vars

\* The handler has run on an empty file set.
C2_Witness ==
    /\ files = NoFiles
    /\ last.op = "publishEnd"
    /\ last.outcome = "empty"
    /\ inflight = EmptyBag

-----------------------------------------------------------------------------
(* C3 *)

\* The body is a JSON object whose success field is true.
IsSuccessBody(raw) == raw.kind = "object" /\ raw.obj.success

\* C3: an attempt that ends without success (its network call throws, its
\* body is not a PublishResult, or success is false) leaves name, url and
\* branch as they were, issues no PATCH and opens nothing.
C3_FailureLeavesMetadata ==
    [][(/\ last'.op = "publishEnd"
        /\ BagIn(last'.attempt, inflight)
        /\ ~IsSuccessBody(last'.body)) =>
          /\ UNCHANGED <<repoName, repoUrl, repoBranch>>
          /\ UNCHANGED patches
          /\ last'.patches = <<>>
          /\ last'.opens = <<>>]_vars

\* An attempt whose response said success = false has ended while a name
\* other than the one it sent is stored.
C3_Witness ==
    /\ last.op = "publishEnd"
    /\ last.body.kind = "object"
    /\ ~last.body.obj.success
    /\ last.attempt.name # ""
    /\ repoName # last.attempt.name

-----------------------------------------------------------------------------
(* C4 *)

\* C4: the notice of each failure class: a body that is not a PublishResult
\* gives "GitHub publish failed"; success = false gives the server's error
\* or else "GitHub publish failed"; a thrown network call gives the catch
\* notice; no exception leaves the handler.
C4_FailureNotices ==
    last.op = "publishEnd" /\ last.outcome # "empty" =>
        /\ ~last.escaped
        /\ last.body = NoBody => last.notices = <<"Unexpected error">>
        /\ last.body.kind \in {"garbage", "null", "scalar"} =>
              last.notices = <<"GitHub publish failed">>
        /\ (last.body.kind = "object" /\ ~last.body.obj.success) =>
              last.notices =
                 <<IF last.body.obj.error # "" THEN last.body.obj.error
                   ELSE "GitHub publish failed">>

-----------------------------------------------------------------------------
(* C5 *)

\* C5: every publish attempt emits exactly one notice, on every path.
C5_OneNoticePerAttempt ==
    /\ last.op = "publishStart" => last.notices = <<>>
    /\ last.op = "publishEnd" => Len(last.notices) = 1

-----------------------------------------------------------------------------
(* C6 *)

\* C6 as stated: on a successful result exactly one of three paths takes
\* effect: (1) repoUrl present: url is set to it and name is its last path
\* segment; (2) else repoName present: name is set to it, url unchanged;
\* (3) else name is the name sent in the request, url unchanged.
C6_ThreePaths ==
    [][(/\ last'.op = "publishEnd"
        /\ BagIn(last'.attempt, inflight)
        /\ IsSuccessBody(last'.body)) =>
          LET d == last'.body.obj
          IN IF d.repoUrl # NoUrl
             THEN repoUrl' = d.repoUrl /\ repoName' = LastSegment(d.repoUrl)
             ELSE IF d.repoName # ""
             THEN repoName' = d.repoName /\ repoUrl' = repoUrl
             ELSE repoName' = last'.attempt.name /\ repoUrl' = repoUrl]_vars

\* C6 amended: (1) repoUrl present: url is set to it; name is its last
\* non-empty path segment when it parses and has one, is left unchanged
\* when it parses and has none, and when it does not parse is repoName if
\* present and otherwise left unchanged; (2) and (3) as stated.
C6_ThreePathsAmended ==
    [][(/\ last'.op = "publishEnd"
        /\ BagIn(last'.attempt, inflight)
        /\ IsSuccessBody(last'.body)) =>
          LET d == last'.body.obj
          IN IF d.repoUrl # NoUrl
             THEN /\ repoUrl' = d.repoUrl
                  /\ repoName' =
                        IF URLParses(d.repoUrl)
                        THEN IF LastSegment(d.repoUrl) # ""
                             THEN LastSegment(d.repoUrl) ELSE repoName
                        ELSE IF d.repoName # "" THEN d.repoName ELSE repoName
             ELSE IF d.repoName # ""
             THEN repoName' = d.repoName /\ repoUrl' = repoUrl
             ELSE repoName' = last'.attempt.name /\ repoUrl' = repoUrl]_vars

\* A success whose repoUrl does not parse and whose repoName is present has
\* been applied: the url is stored and the name is the server's.
C6_Witness ==
    /\ last.op = "publishEnd"
    /\ IsSuccessBody(last.body)
    /\ last.body.obj.repoUrl = BrokenUrl
    /\ last.body.obj.repoName = "other"
    /\ repoUrl = BrokenUrl
    /\ repoName = "other"
    /\ last.attempt.name # "other"

-----------------------------------------------------------------------------
(* C7 *)

\* C7: whenever the stored url is well-formed (and has a path segment),
\* the stored name is the last non-empty path segment of that url.
C7_NameFollowsUrl ==
    (URLParses(repoUrl) /\ LastSegment(repoUrl) # "") =>
        repoName = LastSegment(repoUrl)

-----------------------------------------------------------------------------
(* C8 *)

-----------------------------------------------------------------------------
(* C9 *)

\* C9: after a successful publish with a project id, exactly one PATCH has
\* been issued and it carries the metadata now stored: githubRepoName is
\* the stored name, githubRepoUrl the stored url, githubBranch the stored
\* branch; the handler has ended without waiting for it.
C9_PatchCarriesStoredMetadata ==
    (/\ last.op = "publishEnd"
     /\ last.outcome = "succeeded"
     /\ last.attempt.pid # NoId) =>
        /\ Len(last.patches) = 1
        /\ Len(patches) >= 1
        /\ LET body == last.patches[1].body
           IN /\ body.githubRepoName = repoName
              /\ body.githubBranch = repoBranch
              /\ IF "githubRepoUrl" \in DOMAIN body
                 THEN body.githubRepoUrl = repoUrl
                 ELSE repoUrl = NoUrl

-----------------------------------------------------------------------------
(* C10 *)

\* C10 as stated: the name sent is the stored name if non-empty, else
\* "ai-workspace-<id>" when an id exists, else a timestamp-based name that
\* is the same for every attempt of the session made while no name is
\* stored.
C10_NameToUseDeterministic ==
    [][last'.op = "publishStart" => \A t \in Clock :
          (files # NoFiles /\ PublishTrigger(t)) =>
             /\ repoName # "" => last'.attempt.name = repoName
             /\ (repoName = "" /\ id # NoId) =>
                   last'.attempt.name = "ai-workspace-" \o id
             /\ (repoName = "" /\ id = NoId) =>
                   \A b \in BagToSet(inflight) :
                      b.pid = NoId => last'.attempt.name = b.name]_vars

\* C10 amended: the name sent is the stored name if non-empty, else
\* "ai-workspace-<id>" when an id exists, else "ai-workspace-<Date.now()>"
\* with the time of that click, so it differs between attempts.
C10_NameToUse ==
    [][last'.op = "publishStart" => \A t \in Clock :
          (files # NoFiles /\ PublishTrigger(t)) =>
             /\ last'.posts[1].repoName = last'.attempt.name
             /\ repoName # "" => last'.attempt.name = repoName
             /\ (repoName = "" /\ id # NoId) =>
                   last'.attempt.name = "ai-workspace-" \o id
             /\ (repoName = "" /\ id = NoId) =>
                   last'.attempt.name = "ai-workspace-" \o ToString(t)]_vars

\* Two attempts made with no id and no stored name are in flight under
\* different names.
C10_Witness ==
    /\ last.op = "publishStart"
    /\ id = NoId
    /\ repoName = ""
    /\ last.attempt.name = "ai-workspace-2"
    /\ BagIn(Attempt("ai-workspace-1", "main", NoId), inflight)

-----------------------------------------------------------------------------
(* C11 *)

\* A load that failed: the GET rejected or answered with a non-success
\* status.
LoadFailed == last.op = "load" /\ last.resp.kind \in {"reject", "notok"}

\* C11: when a load has failed the metadata is at its defaults (name empty,
\* url empty, branch "main"), no notice was emitted and no request was
\* issued again; this holds for every load, a load started by a change of
\* the project id included.
C11_FailedLoadLeavesDefaults ==
    LoadFailed =>
        /\ repoName = "" /\ repoUrl = NoUrl /\ repoBranch = "main"
        /\ last.notices = <<>>
        /\ last.posts = <<>> /\ last.patches = <<>>

-----------------------------------------------------------------------------
(* C12 *)

\* C12: the file set changes only in replaceFiles and only to the incoming
\* snapshot, which is then non-empty and taken as a whole; an empty or
\* missing incoming snapshot leaves it unchanged; a non-empty file set
\* never becomes empty; no other operation changes it.
C12_FilesReplacedWhole ==
    [][/\ files' # files => last'.op = "replaceFiles"
       /\ files # NoFiles => files' # NoFiles
       /\ last'.op = "replaceFiles" =>
             /\ last'.outcome = "ignored" => files' = files
             /\ last'.outcome = "replaced" => files' \in Snapshots \ {NoFiles}
             /\ \A incoming \in Incoming :
                   ReplaceFiles(incoming) =>
                      files' = IF incoming.defined /\ incoming.files # NoFiles
                               THEN incoming.files ELSE files]_vars

\* An incoming update was ignored while files were held and a publish of
\* them was in flight.
C12_Witness ==
    /\ last.op = "replaceFiles"
    /\ last.outcome = "ignored"
    /\ files = {"index.js"}
    /\ inflight # EmptyBag

-----------------------------------------------------------------------------
(* C13 *)

\* C13 as stated: a branch change with empty or cancelled input changes
\* nothing, issues no PATCH and emits no notice; with a non-empty value it
\* sets the branch to that value, leaves name and url, issues one PATCH
\* carrying only the new branch and emits the one notice naming the value.
C13_BranchChange ==
    [][last'.op = "changeBranch" =>
          \A input \in PromptInputs :
             ChangeBranch(input) =>
                /\ UNCHANGED <<repoName, repoUrl>>
                /\ input = "" =>
                      /\ UNCHANGED <<repoBranch, patches>>
                      /\ last'.patches = <<>>
                      /\ last'.notices = <<>>
                /\ input # "" =>
                      /\ repoBranch' = input
                      /\ last'.patches =
                            <<[pid |-> id, body |-> [githubBranch |-> input]]>>
                      /\ Len(patches') = Len(patches) + 1
                      /\ last'.notices = <<"Branch set to " \o input>>]_vars

\* C13 amended: as stated, except that the PATCH is issued only when a
\* project id is set; without one no request is issued.
C13_BranchChangeAmended ==
    [][last'.op = "changeBranch" =>
          \A input \in PromptInputs :
             ChangeBranch(input) =>
                /\ UNCHANGED <<repoName, repoUrl>>
                /\ input = "" =>
                      /\ UNCHANGED <<repoBranch, patches>>
                      /\ last'.patches = <<>>
                      /\ last'.notices = <<>>
                /\ input # "" =>
                      /\ repoBranch' = input
                      /\ last'.notices = <<"Branch set to " \o input>>
                      /\ IF id # NoId
                         THEN /\ last'.patches =
                                    <<[pid |-> id,
                                       body |-> [githubBranch |-> input]]>>
                              /\ Len(patches') = Len(patches) + 1
                         ELSE /\ last'.patches = <<>>
                              /\ UNCHANGED patches]_vars

\* The branch was set to "dev" on a route without a project id: the notice
\* was emitted and no PATCH was issued.
C13_Witness ==
    /\ last.op = "changeBranch"
    /\ last.outcome = "set"
    /\ id = NoId
    /\ repoBranch = "dev"
    /\ last.notices = <<"Branch set to dev">>
    /\ last.patches = <<>>

-----------------------------------------------------------------------------
(* C14 *)

\* C14: the branch starts as "main" and changes only when a load response
\* supplies a branch or a non-empty branch change is made, and then to that
\* value; so it is "main" as long as neither has happened, and no publish
\* attempt changes it.
C14_BranchDefault ==
    /\ repoBranch = "main"
    /\ [][/\ repoBranch' # repoBranch =>
                \/ /\ last'.op = "load"
                   /\ last'.resp.kind = "data"
                   /\ last'.resp.data.githubBranch = repoBranch'
                \/ /\ last'.op = "changeBranch"
                   /\ last'.outcome = "set"
          /\ last'.op \in {"publishStart", "publishEnd"} =>
                repoBranch' = repoBranch]_vars

\* A load response without a branch was applied while the branch was
\* "main" and a publish attempt made on "main" was in flight.
C14_Witness ==
    /\ last.op = "load"
    /\ last.resp.kind = "data"
    /\ last.resp.data.githubBranch = ""
    /\ last.resp.data.githubRepoName = "other"
    /\ repoBranch = "main"
    /\ \E a \in BagToSet(inflight) : a.branch = "main"

-----------------------------------------------------------------------------
(* C15 *)

\* C15: with no url stored, openRepo opens nothing and copyRepoUrl writes
\* nothing to the clipboard, and each emits exactly one notice; with a url
\* stored, copyRepoUrl makes one clipboard write of that url and, when the
\* write settles, emits the one notice of its outcome; neither action
\* changes name, url or branch.
C15_RepoActions ==
    [][last'.op \in {"openRepo", "copyRepoUrl", "copyStart"} =>
          /\ UNCHANGED <<repoName, repoUrl, repoBranch>>
          /\ (last'.op = "openRepo" /\ repoUrl = NoUrl) =>
                /\ last'.opens = <<>>
                /\ last'.notices = <<"No repo URL available">>
          /\ (last'.op # "openRepo" /\ repoUrl = NoUrl) =>
                /\ last'.op = "copyRepoUrl"
                /\ last'.clips = <<>>
                /\ clips' = clips
                /\ last'.notices = <<"No repo URL to copy">>
          /\ (last'.op = "copyStart" /\ repoUrl # NoUrl) =>
                /\ last'.clips = <<repoUrl>>
                /\ clips' = clips + 1
                /\ last'.notices = <<>>
          /\ (last'.op = "copyRepoUrl" /\ repoUrl # NoUrl) =>
                /\ last'.clips = <<>>
                /\ clips' = clips - 1
                /\ last'.outcome \in {"ok", "failed"}
                /\ last'.notices =
                      IF last'.outcome = "ok"
                      THEN <<"Repository URL copied to clipboard">>
                      ELSE <<"Unable to copy URL">>]_vars

\* The clipboard write of a stored url has failed and its notice is out.
C15_Witness ==
    /\ last.op = "copyRepoUrl"
    /\ last.outcome = "failed"
    /\ last.notices = <<"Unable to copy URL">>
    /\ repoUrl = AppUrl
    /\ clips = 0

-----------------------------------------------------------------------------
(* C16 *)

\* C16: every publish request carries a non-empty repoName, the non-empty
\* file set held when the publish was triggered and the branch stored then.
C16_RequestWellFormed ==
    /\ last.op = "publishStart" =>
          /\ Len(last.posts) = 1
          /\ last.posts[1].repoName # ""
          /\ last.posts[1].files # NoFiles
          /\ last.posts[1].files = files
          /\ last.posts[1].branch = repoBranch
    /\ last.op # "publishStart" => last.posts = <<>>

\* With the stored name "app" and branch "dev", a second request was sent
\* for the file set {"index.js"}.
C16_Witness ==
    /\ last.op = "publishStart"
    /\ last.posts[1] =
          [repoName |-> "app", files |-> {"index.js"}, branch |-> "dev"]
    /\ BagCardinality(inflight) = 2

-----------------------------------------------------------------------------
(* C17 *)

\* C17: once a successful publish result or a non-empty branch change has
\* been applied, no load response changes name, url or branch; stated for
\* the load response that is applied right after such a step.
C17_LoadBeforeMutation ==
    [][(/\ \/ last.op = "publishEnd" /\ last.outcome = "succeeded"
           \/ last.op = "changeBranch" /\ last.outcome = "set"
        /\ last'.op = "load") =>
          UNCHANGED <<repoName, repoUrl, repoBranch>>]_vars

-----------------------------------------------------------------------------
(* C18 *)

\* C18: the loading flag does not block a publish: whenever files are held
\* and the request bound of the model is not reached, a click starts an
\* attempt, with loading set as well as not; so two attempts can be in
\* flight together.
C18_TriggerAcceptedWhileBusy ==
    (files # NoFiles /\ Outstanding < MaxOutstanding) =>
        ENABLED (\E t \in Clock :
                    /\ PublishTrigger(t)
                    /\ BagCardinality(inflight') = BagCardinality(inflight) + 1)

\* A second attempt was started while the first was in flight and loading
\* was set.
C18_Witness ==
    /\ last.op = "publishStart"
    /\ loading
    /\ BagCardinality(inflight) = 2
    /\ BagIn(last.attempt, inflight)

-----------------------------------------------------------------------------
(* C19 *)

\* C19: loading is set in every state in which a publish request is
\* outstanding, overlapping attempts included.
C19_BusyWhileOutstanding ==
    inflight # EmptyBag => loading

-----------------------------------------------------------------------------
(* C20 *)

\* C20: with a project id and the PATCHes applied in the order they were
\* issued, whenever the last pending PATCH has been applied and no publish
\* attempt is in flight, the branch of the backend record (the githubBranch
\* of the PATCH applied last) is the branch stored in the component.
C20_BackendBranchFollows ==
    (/\ last.op = "patchSettle"
     /\ last.outcome = "ok"
     /\ id # NoId
     /\ patches = <<>>
     /\ inflight = EmptyBag) =>
        last.applied[1].githubBranch = repoBranch

====
